---- MODULE Spec2Model ----
(***************************************************************************)
(* Model of server.js: the /info and /download handlers of the downloader  *)
(* backend, the three child processes they spawn (yt-dlp --dump-json,      *)
(* yt-dlp download, ffmpeg trim), the temp files in os.tmpdir() and the    *)
(* HTTP response of every request.                                         *)
(*                                                                         *)
(* Strings that the code inspects (URLs, filenames, extensions) are        *)
(* sequences of one-character strings, so that parsing, matching and       *)
(* replacing are computed and not assumed.                                 *)
(***************************************************************************)
EXTENDS Integers, Sequences, FiniteSets, TLC

(***************************************************************************)
(* Bounds of the model.                                                    *)
(***************************************************************************)
\* Number of /info and /download requests that may be in flight together.
NumReq == 2
\* Number of distinct values of the pair (Date.now(), Math.random()) that
\* the environment may hand to the temp-file names.
NumStamps == 2

\* server.js:26
MAX_DURATION == 3600

Req == 1..NumReq
Stamps == 1..NumStamps

\* undefined: a query parameter that was not supplied, a JSON field that is
\* not present.
Absent == <<"undefined">>

(***************************************************************************)
(* String literals of the source, as character sequences.                  *)
(***************************************************************************)
S_video == <<"v","i","d","e","o">>
S_audio == <<"a","u","d","i","o">>
S_gif == <<"g","i","f">>
S_mp4 == <<"m","p","4">>
S_mp3 == <<"m","p","3">>
S_webm == <<"w","e","b","m">>
S_720p == <<"7","2","0","p">>
S_192 == <<"1","9","2">>
S_kbps == <<"k","b","p","s">>
S_trimmed == <<"_","t","r","i","m","m","e","d">>
S_youtube_com == <<"y","o","u","t","u","b","e",".","c","o","m">>
S_youtu_be == <<"y","o","u","t","u",".","b","e">>
S_audio_mpeg == <<"a","u","d","i","o","/","m","p","e","g">>
S_video_slash == <<"v","i","d","e","o","/">>
S_time == <<"0","0",":","0","1">>
\* A quality that holds the extension: ".mp4".
S_dot_mp4 == <<".","m","p","4">>

\* Request URLs the model sends.
U_short == <<"h","t","t","p",":","/","/","y","o","u","t","u",".","b","e","/","x">>
U_long == <<"h","t","t","p",":","/","/","y","o","u","t","u","b","e",".","c","o","m">>
U_other == <<"h","t","t","p",":","/","/","v","i","m","e","o",".","c","o","/","y","o","u","t","u",".","b","e">>
U_noscheme == <<"y","o","u","t","u",".","b","e">>
U_empty == <<>>

(***************************************************************************)
(* String helpers.                                                         *)
(***************************************************************************)
\* s.indexOf(pat) counted from 1; 0 when pat does not occur in s.
IndexOf(s, pat) ==
  LET hits == {i \in 1..(Len(s) - Len(pat) + 1) : SubSeq(s, i, i + Len(pat) - 1) = pat}
  IN IF hits = {} THEN 0 ELSE CHOOSE i \in hits : \A j \in hits : i <= j

\* pat occurs in s (an unanchored RegExp.test of a literal pattern).
Contains(s, pat) == IndexOf(s, pat) # 0

\* String.prototype.replace(pat, by) with a string pattern: the first
\* occurrence only.
ReplaceFirst(s, pat, by) ==
  LET i == IndexOf(s, pat)
  IN IF i = 0 THEN s
     ELSE SubSeq(s, 1, i - 1) \o by \o SubSeq(s, i + Len(pat), Len(s))

\* JavaScript truthiness of a query parameter: undefined and '' are falsy.
Truthy(v) == v # Absent /\ v # <<>>

\* Destructuring default: applies to undefined only.
Default(v, d) == IF v = Absent THEN d ELSE v

(***************************************************************************)
(* isValidYouTubeUrl (server.js:181-188).                                  *)
(***************************************************************************)
\* Number of leading "/" of s.
RECURSIVE LeadingSlashes(_)
LeadingSlashes(s) ==
  IF s # <<>> /\ Head(s) = "/" THEN 1 + LeadingSlashes(Tail(s)) ELSE 0

\* What follows "scheme:" and the slashes after it, for the http(s) URLs and
\* the scheme-less strings the model sends.
AfterScheme(u) ==
  LET colon == IndexOf(u, <<":">>)
      rest == SubSeq(u, colon + 1, Len(u))
  IN SubSeq(rest, LeadingSlashes(rest) + 1, Len(rest))

\* new URL(u).hostname: the authority up to the first "/".
Hostname(u) ==
  LET a == AfterScheme(u)
      slash == IndexOf(a, <<"/">>)
  IN IF slash = 0 THEN a ELSE SubSeq(a, 1, slash - 1)

\* new URL(u) does not throw: a non-empty scheme and a non-empty host.
UrlParses(u) == IndexOf(u, <<":">>) > 1 /\ Hostname(u) # <<>>

\* The mutant tests the pattern against the whole URL instead of its host.
isValidYouTubeUrl_anywhere(url) ==
  UrlParses(url) /\ (Contains(url, S_youtube_com) \/ Contains(url, S_youtu_be))

isValidYouTubeUrl(url) ==
  IF UrlParses(url)
  THEN Contains(Hostname(url), S_youtube_com) \/ Contains(Hostname(url), S_youtu_be)
  ELSE FALSE

\* The guard of both handlers: !url || !isValidYouTubeUrl(url).
UrlRejected(url) == ~Truthy(url) \/ ~isValidYouTubeUrl(url)

\* ['video', 'audio'].includes(mode)
ModeAccepted(mode) == mode \in {S_video, S_audio}

(***************************************************************************)
(* sanitizeFilename (server.js:191-197).                                   *)
(***************************************************************************)
NameChars ==
  {"a","b","c","d","e","f","g","h","i","j","k","l","m","n","o","p","q","r","s",
   "t","u","v","w","x","y","z","0","1","2","3","4","5","6","7","8","9","-","_"," "}

\* .replace(/[^a-zA-Z0-9\-_ ]/g, '_')
ReplaceForbidden(s) == [i \in 1..Len(s) |-> IF s[i] \in NameChars THEN s[i] ELSE "_"]

\* .replace(/\s+/g, ' '): after ReplaceForbidden the only whitespace left is " ".
RECURSIVE CollapseSpaces(_)
CollapseSpaces(s) ==
  IF Len(s) < 2 THEN s
  ELSE IF s[1] = " " /\ s[2] = " " THEN CollapseSpaces(Tail(s))
  ELSE <<s[1]>> \o CollapseSpaces(Tail(s))

\* .trim()
RECURSIVE TrimLeft(_)
TrimLeft(s) == IF s # <<>> /\ Head(s) = " " THEN TrimLeft(Tail(s)) ELSE s

RECURSIVE TrimRight(_)
TrimRight(s) ==
  IF s # <<>> /\ s[Len(s)] = " " THEN TrimRight(SubSeq(s, 1, Len(s) - 1)) ELSE s

\* .slice(0, 100)
TitleMax == 100

sanitizeFilename(name) ==
  LET t == TrimRight(TrimLeft(CollapseSpaces(ReplaceForbidden(name))))
  IN SubSeq(t, 1, IF Len(t) < TitleMax THEN Len(t) ELSE TitleMax)

(***************************************************************************)
(* Format selection, file name and headers of /download                    *)
(* (server.js:105-120, 137, 143).                                          *)
(***************************************************************************)
\* info.title || 'video', sanitized.  A title is Absent or a string.
TitleOf(title) == sanitizeFilename(IF Truthy(title) THEN title ELSE S_video)

\* server.js:111-120
Ext(mode, container) ==
  IF mode = S_audio
  THEN (IF container = S_mp3 THEN S_mp3 ELSE S_webm)
  ELSE container

\* server.js:114, 119
Filename(title, mode, quality, bitrate, ext) ==
  IF mode = S_audio
  THEN title \o <<"_">> \o bitrate \o S_kbps \o <<".">> \o ext
  ELSE title \o <<"_">> \o quality \o <<".">> \o ext

\* server.js:137.  The replacement string is taken literally: the
\* extensions of the model contain no "$".
TrimmedFilename(filename, ext) ==
  ReplaceFirst(filename, <<".">> \o ext, S_trimmed \o <<".">> \o ext)

\* The mutant answers audio/mpeg for every audio download.
ContentType_audio(mode, ext) ==
  IF mode = S_audio THEN S_audio_mpeg ELSE S_video_slash \o ext

\* server.js:143
ContentType(mode, ext) ==
  IF mode = S_audio /\ ext = S_mp3 THEN S_audio_mpeg ELSE S_video_slash \o ext

\* server.js:123, 131: a path in os.tmpdir().  stamp stands for the pair
\* (Date.now(), Math.random().toString(36).slice(2)): both come from the
\* environment, and neither the wall clock nor the generator promises a
\* value that was not handed out before.
TempPath(prefix, stamp, ext) == [prefix |-> prefix, stamp |-> stamp, ext |-> ext]

(***************************************************************************)
(* Inputs of the model.                                                    *)
(***************************************************************************)
\* A video title with characters that sanitizeFilename rewrites: "a  b.mp4".
T_title == <<"a"," "," ","b",".","m","p","4">>

Urls == {Absent, U_empty, U_noscheme, U_other, U_short, U_long}
Modes == {Absent, S_audio, S_gif}
Qualities == {Absent, S_dot_mp4}
Containers == {Absent, S_mp3}
Bitrates == {Absent}
Starts == {Absent, <<>>, S_time}
Ends == {Absent, S_time}

\* req.query of a /download request.
Queries ==
  [url : Urls, mode : Modes, quality : Qualities, container : Containers,
   bitrate : Bitrates, start : Starts, end : Ends]

\* A JSON number field is <<>> when the field is missing and <<n>> otherwise.
Durations == {<<>>, <<0>>, <<MAX_DURATION>>, <<MAX_DURATION + 1>>}
Titles == {Absent, T_title}

\* What JSON.parse(stdout) yields: a record, or Garbage when it throws.
Garbage == [parses |-> FALSE]
InfoOutputs ==
  {Garbage} \cup [parses : {TRUE}, duration : Durations, title : Titles]

\* How the environment ends a child process, as exit records it.  "ok":
\* 'close' with code 0 and the output there (stdout that parses, the output
\* file); "garbage": 'close' with code 0 and stdout that does not parse;
\* "nofile": 'close' with code 0 and no output file; "fail": 'close' with a
\* non-zero code (or a signal), which leaves nothing at the output path;
\* "error": the 'error' event of a failed spawn (the 'close' that follows it
\* finds the promise settled and changes nothing).  The read stream ends
\* with "end" or "error".

NoPath == [prefix |-> "none", stamp |-> 0, ext |-> <<>>]
NoInfo == [parses |-> FALSE]
NoQuery ==
  [url |-> Absent, mode |-> Absent, quality |-> Absent, container |-> Absent,
   bitrate |-> Absent, start |-> Absent, end |-> Absent]

(***************************************************************************)
(* State.                                                                  *)
(***************************************************************************)
VARIABLES
  pc,          \* where each request is: "idle", "info", "download", "trim",
               \* "streaming", or ended: "rejected", "answered", "streamed",
               \* "failed"
  route,       \* "none", "info" or "download"
  query,       \* the destructured req.query (defaults applied)
  info,        \* what getVideoInfo resolved with
  ext,         \* ext of the handler
  filename,    \* filename of the handler
  tempFile,    \* tempFile of the handler
  finalFile,   \* trimmedFile while trimming, finalFile afterwards
  files,       \* the paths that exist in os.tmpdir()
  res,         \* the response: status code (0: none), headersSent,
               \* Content-Type, Content-Disposition filename, and how many
               \* responses were started
  spawned,     \* how many info, download and trim processes were spawned
  made,        \* the paths the processes of the request have written
  exit         \* how the environment ended the info, download and trim
               \* processes and the read stream of the request

vars ==
  <<pc, route, query, info, ext, filename, tempFile, finalFile, files, res,
    spawned, made, exit>>

NoRes ==
  [status |-> 0, headersSent |-> FALSE, ctype |-> <<>>, disposition |-> <<>>,
   count |-> 0, streamed |-> FALSE]

Init ==
  /\ pc = [r \in Req |-> "idle"]
  /\ route = [r \in Req |-> "none"]
  /\ query = [r \in Req |-> NoQuery]
  /\ info = [r \in Req |-> NoInfo]
  /\ ext = [r \in Req |-> <<>>]
  /\ filename = [r \in Req |-> <<>>]
  /\ tempFile = [r \in Req |-> NoPath]
  /\ finalFile = [r \in Req |-> NoPath]
  /\ files = {}
  /\ res = [r \in Req |-> NoRes]
  /\ spawned = [r \in Req |-> [info |-> 0, download |-> 0, trim |-> 0]]
  /\ made = [r \in Req |-> {}]
  /\ exit = [r \in Req |->
              [info |-> "none", download |-> "none", trim |-> "none",
               stream |-> "none"]]

(***************************************************************************)
(* The response object.                                                    *)
(***************************************************************************)
\* res.status(code).json(...): sends the headers and the body.
Json(rs, code) ==
  [rs EXCEPT !.status = code, !.headersSent = TRUE, !.count = @ + 1]

\* The guarded error response of the catch block and of stream.on('error'):
\* if (!res.headersSent) res.status(500).json(...).  The mutant answers
\* without looking at res.headersSent.
ErrorResponse_unguarded(rs) == Json(rs, 500)

ErrorResponse(rs) == IF rs.headersSent THEN rs ELSE Json(rs, 500)

\* The first write of stream.pipe(res) (or its end()) flushes the headers
\* that setHeader stored, with the default status 200.
Flush(rs) ==
  IF rs.headersSent THEN rs
  ELSE [rs EXCEPT !.status = 200, !.headersSent = TRUE, !.count = @ + 1,
                  !.streamed = TRUE]

(***************************************************************************)
(* The environment's choice of Date.now() and Math.random().               *)
(***************************************************************************)
\* The stamps of the paths with this prefix that a request holds or that
\* exist in the temp directory.
UsedStamps(prefix) ==
  {p.stamp : p \in {x \in {tempFile[r] : r \in Req} \cup {finalFile[r] : r \in Req}
                            \cup files : x.prefix = prefix}}

\* Stamps are only ever compared for equality, so the choice is made up to
\* renaming: a stamp already in use for the prefix, or the least unused one.
StampChoices(prefix) ==
  {s \in Stamps : \A t \in 1..(s - 1) : t \in UsedStamps(prefix)}

(***************************************************************************)
(* Steps shared by the handlers.                                           *)
(***************************************************************************)
\* catch (error) of /download (server.js:171-177).
Catch(r) ==
  /\ pc' = [pc EXCEPT ![r] = "failed"]
  /\ res' = [res EXCEPT ![r] = ErrorResponse(@)]

\* The mutant trims only when both boundaries are given.
WantsTrim_both(q) == Truthy(q.start) /\ Truthy(q.end)

\* server.js:130: start || end
WantsTrim(q) == Truthy(q.start) \/ Truthy(q.end)

\* server.js:141-150: fs.stat(finalFile) throws when the file is missing;
\* otherwise the headers are stored and the read stream is piped.  fs is
\* the content of the temp directory when stat runs.
BeginStream(r, file, fname, fs) ==
  IF file \in fs
  THEN /\ pc' = [pc EXCEPT ![r] = "streaming"]
       /\ res' = [res EXCEPT ![r] =
                    [@ EXCEPT !.ctype = ContentType(query[r].mode, ext[r]),
                              !.disposition = fname]]
  ELSE Catch(r)

\* The mutant leaves the file where it is.
Unlink_noop(fs, path) == fs

\* The mutant clears every temp file of the path's kind, as "rm ytdl_*"
\* would.
Unlink_prefix(fs, path) == {f \in fs : f.prefix # path.prefix}

\* fs.unlink(path) with its failure swallowed: afterwards the path is gone.
Unlink(fs, path) == fs \ {path}

\* The mutant answers from the metadata another request fetched for the same
\* URL, and spawns nothing.
SpawnInfo_cached(r) ==
  IF \E o \in Req \ {r} : info[o].parses /\ query[o].url = query'[r].url
  THEN spawned
  ELSE [spawned EXCEPT ![r].info = @ + 1]

\* spawn(YT_DLP_PATH, ['--dump-json', ...]) of getVideoInfo (server.js:203),
\* called once by each handler.
SpawnInfo(r) == [spawned EXCEPT ![r].info = @ + 1]

(***************************************************************************)
(* GET /info (server.js:57-71).                                            *)
(***************************************************************************)
Info(r, url) ==
  /\ pc[r] = "idle"
  /\ route' = [route EXCEPT ![r] = "info"]
  /\ query' = [query EXCEPT ![r] = [NoQuery EXCEPT !.url = url]]
  /\ IF UrlRejected(url)
     THEN /\ pc' = [pc EXCEPT ![r] = "rejected"]
          /\ res' = [res EXCEPT ![r] = Json(@, 400)]
          /\ UNCHANGED spawned
     ELSE /\ pc' = [pc EXCEPT ![r] = "info"]
          /\ spawned' = SpawnInfo(r)
          /\ UNCHANGED res
  /\ UNCHANGED <<info, ext, filename, tempFile, finalFile, files, made, exit>>

(***************************************************************************)
(* GET /download up to the first await (server.js:74-97).                  *)
(***************************************************************************)
Download(r, q) ==
  LET d == [url |-> q.url,
            mode |-> Default(q.mode, S_video),
            quality |-> Default(q.quality, S_720p),
            container |-> Default(q.container, S_mp4),
            bitrate |-> Default(q.bitrate, S_192),
            start |-> q.start,
            end |-> q.end]
  IN
  /\ pc[r] = "idle"
  /\ route' = [route EXCEPT ![r] = "download"]
  /\ query' = [query EXCEPT ![r] = d]
  /\ IF UrlRejected(d.url) \/ ~ModeAccepted(d.mode)
     THEN /\ pc' = [pc EXCEPT ![r] = "rejected"]
          /\ res' = [res EXCEPT ![r] = Json(@, 400)]
          /\ UNCHANGED spawned
     ELSE /\ pc' = [pc EXCEPT ![r] = "info"]
          /\ spawned' = SpawnInfo(r)
          /\ UNCHANGED res
  /\ UNCHANGED <<info, ext, filename, tempFile, finalFile, files, made, exit>>

(***************************************************************************)
(* getVideoInfo settles (server.js:216-238) and the handler that awaits    *)
(* it goes on.                                                             *)
(***************************************************************************)
\* info.duration || 0
DurationOf(inf) ==
  IF inf.duration = <<>> THEN 0 ELSE inf.duration[1]

\* The mutant takes the limit for minutes, as the error message prints it.
TooLong_minutes(inf) == DurationOf(inf) > MAX_DURATION * 60

TooLong_inclusive(inf) == DurationOf(inf) >= MAX_DURATION

\* server.js:101
TooLong(inf) == DurationOf(inf) > MAX_DURATION

\* The promise resolves: /info answers with the record (server.js:66);
\* /download checks the duration, names the temp file and spawns the
\* download (server.js:98-126).
InfoResolved(r, inf, stamp) ==
  /\ info' = [info EXCEPT ![r] = inf]
  /\ IF route[r] = "info"
     THEN /\ pc' = [pc EXCEPT ![r] = "answered"]
          /\ res' = [res EXCEPT ![r] = Json(@, 200)]
          /\ UNCHANGED <<ext, filename, tempFile, spawned>>
     ELSE IF TooLong(inf)
     THEN /\ Catch(r)
          /\ UNCHANGED <<ext, filename, tempFile, spawned>>
     ELSE LET e == Ext(query[r].mode, query[r].container)
          IN /\ ext' = [ext EXCEPT ![r] = e]
             /\ filename' = [filename EXCEPT ![r] =
                  Filename(TitleOf(inf.title), query[r].mode, query[r].quality,
                           query[r].bitrate, e)]
             /\ tempFile' = [tempFile EXCEPT ![r] = TempPath("ytdl", stamp, e)]
             /\ spawned' = [spawned EXCEPT ![r].download = @ + 1]
             /\ pc' = [pc EXCEPT ![r] = "download"]
             /\ UNCHANGED res

\* The promise rejects: catch of /info (server.js:67-70) or of /download.
InfoRejected(r) ==
  /\ IF route[r] = "info"
     THEN /\ pc' = [pc EXCEPT ![r] = "failed"]
          /\ res' = [res EXCEPT ![r] = Json(@, 500)]
     ELSE Catch(r)
  /\ UNCHANGED <<info, ext, filename, tempFile, spawned>>

\* The mutant trusts whatever JSON the process printed, whatever its code.
InfoSucceeded_anycode(code, out) == out.parses

\* server.js:217-233: code 0 and JSON.parse(stdout) does not throw.
InfoSucceeded(code, out) == code = 0 /\ out.parses

\* proc.on('close') of getVideoInfo.
InfoClose(r, code, out, stamp) ==
  /\ pc[r] = "info"
  /\ exit' = [exit EXCEPT ![r].info =
                IF code # 0 THEN "fail" ELSE IF out.parses THEN "ok" ELSE "garbage"]
  /\ IF InfoSucceeded(code, out)
     THEN InfoResolved(r, out, stamp)
     ELSE InfoRejected(r)
  /\ UNCHANGED <<route, query, finalFile, files, made>>

\* proc.on('error') of getVideoInfo.
InfoError(r) ==
  /\ pc[r] = "info"
  /\ exit' = [exit EXCEPT ![r].info = "error"]
  /\ InfoRejected(r)
  /\ UNCHANGED <<route, query, finalFile, files, made>>

\* The mutant is content with the exit code.
Completed_codeonly(code, path, fs) == code = 0

\* The 'close' handlers of downloadVideo and trimVideo (server.js:271-280,
\* 316-325): code 0, and fs.access(outputPath) finds the file.
Completed(code, path, fs) == code = 0 /\ path \in fs

(***************************************************************************)
(* downloadVideo settles (server.js:270-286) and /download goes on         *)
(* (server.js:128-150).                                                    *)
(***************************************************************************)
\* The mutant streams the download at once, whether a trim was asked or not.
DownloadResolved_stream(r, stamp, fs) ==
  /\ finalFile' = [finalFile EXCEPT ![r] = tempFile[r]]
  /\ BeginStream(r, tempFile[r], filename[r], fs)
  /\ UNCHANGED spawned

\* The promise resolves (exit code 0 and fs.access found the file): the
\* trim is spawned when asked for, otherwise the download is streamed.
DownloadResolved(r, stamp, fs) ==
  IF WantsTrim(query[r])
  THEN /\ finalFile' = [finalFile EXCEPT ![r] = TempPath("ytdl_trim", stamp, ext[r])]
       /\ spawned' = [spawned EXCEPT ![r].trim = @ + 1]
       /\ pc' = [pc EXCEPT ![r] = "trim"]
       /\ UNCHANGED res
  ELSE /\ finalFile' = [finalFile EXCEPT ![r] = tempFile[r]]
       /\ BeginStream(r, tempFile[r], filename[r], fs)
       /\ UNCHANGED spawned

\* proc.on('close') of downloadVideo.  wrote: the process left its output
\* at outputPath.
DownloadClose(r, code, wrote, stamp) ==
  /\ pc[r] = "download"
  /\ code # 0 => ~wrote
  /\ exit' = [exit EXCEPT ![r].download =
                IF code # 0 THEN "fail" ELSE IF wrote THEN "ok" ELSE "nofile"]
  /\ LET fs == IF wrote THEN files \cup {tempFile[r]} ELSE files
     IN /\ files' = fs
        /\ made' = [made EXCEPT ![r] = IF wrote THEN @ \cup {tempFile[r]} ELSE @]
        /\ IF Completed(code, tempFile[r], fs)
           THEN DownloadResolved(r, stamp, fs)
           ELSE Catch(r) /\ UNCHANGED <<finalFile, spawned>>
  /\ UNCHANGED <<route, query, info, ext, filename, tempFile>>

\* The mutant notes the failed spawn and never settles the promise.
DownloadError_unsettled(r) ==
  /\ pc[r] = "download"
  /\ exit' = [exit EXCEPT ![r].download = "error"]
  /\ pc' = [pc EXCEPT ![r] = "pending"]
  /\ UNCHANGED <<route, query, info, ext, filename, tempFile, finalFile, files,
                 res, spawned, made>>

\* proc.on('error') of downloadVideo.
DownloadError(r) ==
  /\ pc[r] = "download"
  /\ exit' = [exit EXCEPT ![r].download = "error"]
  /\ Catch(r)
  /\ UNCHANGED <<route, query, info, ext, filename, tempFile, finalFile, files,
                 spawned, made>>

(***************************************************************************)
(* trimVideo settles (server.js:315-330) and /download goes on             *)
(* (server.js:134-150).                                                    *)
(***************************************************************************)
\* proc.on('close') of trimVideo.  ffmpeg cannot succeed without its input.
TrimClose(r, code, wrote) ==
  /\ pc[r] = "trim"
  /\ code # 0 => ~wrote
  /\ tempFile[r] \notin files => code # 0
  /\ exit' = [exit EXCEPT ![r].trim =
                IF code # 0 THEN "fail" ELSE IF wrote THEN "ok" ELSE "nofile"]
  /\ LET written == IF wrote THEN files \cup {finalFile[r]} ELSE files
     IN /\ made' = [made EXCEPT ![r] = IF wrote THEN @ \cup {finalFile[r]} ELSE @]
        /\ IF Completed(code, finalFile[r], written)
           THEN LET fs == Unlink(written, tempFile[r])
                    fname == TrimmedFilename(filename[r], ext[r])
                IN /\ files' = fs
                   /\ filename' = [filename EXCEPT ![r] = fname]
                   /\ BeginStream(r, finalFile[r], fname, fs)
           ELSE /\ files' = written
                /\ Catch(r)
                /\ UNCHANGED filename
  /\ UNCHANGED <<route, query, info, ext, tempFile, finalFile, spawned>>

\* proc.on('error') of trimVideo.
TrimError(r) ==
  /\ pc[r] = "trim"
  /\ exit' = [exit EXCEPT ![r].trim = "error"]
  /\ Catch(r)
  /\ UNCHANGED <<route, query, info, ext, filename, tempFile, finalFile, files,
                 spawned, made>>

(***************************************************************************)
(* The read stream piped into the response (server.js:149-169).            *)
(***************************************************************************)
\* The first chunk read from the file is written to the response.
StreamData(r) ==
  /\ pc[r] = "streaming"
  /\ ~res[r].headersSent
  /\ finalFile[r] \in files
  /\ res' = [res EXCEPT ![r] = Flush(@)]
  /\ UNCHANGED <<pc, route, query, info, ext, filename, tempFile, finalFile,
                 files, spawned, made, exit>>

\* stream.on('end'): pipe ends the response, the handler unlinks the file.
StreamEnd(r) ==
  /\ pc[r] = "streaming"
  /\ finalFile[r] \in files
  /\ res' = [res EXCEPT ![r] = Flush(@)]
  /\ files' = Unlink(files, finalFile[r])
  /\ pc' = [pc EXCEPT ![r] = "streamed"]
  /\ exit' = [exit EXCEPT ![r].stream = "end"]
  /\ UNCHANGED <<route, query, info, ext, filename, tempFile, finalFile,
                 spawned, made>>

\* stream.on('error'): the file is unlinked, and an error is answered when
\* no header has left yet.
StreamError(r) ==
  /\ pc[r] = "streaming"
  /\ files' = Unlink(files, finalFile[r])
  /\ res' = [res EXCEPT ![r] = ErrorResponse(@)]
  /\ pc' = [pc EXCEPT ![r] = "failed"]
  /\ exit' = [exit EXCEPT ![r].stream = "error"]
  /\ UNCHANGED <<route, query, info, ext, filename, tempFile, finalFile,
                 spawned, made>>

(***************************************************************************)
(* Specifications.                                                         *)
(***************************************************************************)
\* What the server can do next for request r, the environment choosing the
\* request among urls and queries and the output of yt-dlp among outputs.
Step(r, urls, queries, outputs) ==
  \/ \E url \in urls : Info(r, url)
  \/ \E q \in queries : Download(r, q)
  \/ \E code \in {0, 1}, out \in outputs, stamp \in StampChoices("ytdl") :
       InfoClose(r, code, out, stamp)
  \/ InfoError(r)
  \/ \E code \in {0, 1}, wrote \in BOOLEAN, stamp \in StampChoices("ytdl_trim") :
       DownloadClose(r, code, wrote, stamp)
  \/ DownloadError(r)
  \/ \E code \in {0, 1}, wrote \in BOOLEAN : TrimClose(r, code, wrote)
  \/ TrimError(r)
  \/ StreamData(r)
  \/ StreamEnd(r)
  \/ StreamError(r)

\* One request at a time, over every input of the model.
Next == Step(1, Urls, Queries, InfoOutputs)

Spec == Init /\ [][Next]_vars

\* The events a request waits for: 'close' or 'error' of its child process,
\* 'end' or 'error' of its read stream.
Settle(r) ==
  \/ \E code \in {0, 1}, out \in InfoOutputs, stamp \in StampChoices("ytdl") :
       InfoClose(r, code, out, stamp)
  \/ InfoError(r)
  \/ \E code \in {0, 1}, wrote \in BOOLEAN, stamp \in StampChoices("ytdl_trim") :
       DownloadClose(r, code, wrote, stamp)
  \/ DownloadError(r)
  \/ \E code \in {0, 1}, wrote \in BOOLEAN : TrimClose(r, code, wrote)
  \/ TrimError(r)
  \/ StreamEnd(r)
  \/ StreamError(r)

\* One request, with every child process and every read stream ending at
\* some time.
SpecLive == Init /\ [][Next]_vars /\ WF_vars(Settle(1))

\* Requests in flight together.  What differs between two such requests is
\* the interleaving and the temp-file names, so the inputs are narrowed to
\* one accepted URL whose download is trimmed (the path that holds both
\* temp files), one refused URL, the default format and one metadata record.
ConcUrls == {U_short}
ConcQueries ==
  {q \in Queries : /\ q.url \in {U_short, U_other}
                   /\ q.mode = Absent
                   /\ q.quality = Absent
                   /\ q.container = Absent
                   /\ q.bitrate = Absent
                   /\ q.start = Absent
                   /\ (q.end = Absent <=> q.url = U_other)}
ConcInfoOutputs == {[parses |-> TRUE, duration |-> <<0>>, title |-> Absent]}

NextConc == \E r \in Req : Step(r, ConcUrls, ConcQueries, ConcInfoOutputs)

SpecConc == Init /\ [][NextConc]_vars

(***************************************************************************)
(* Vocabulary of the properties.                                           *)
(***************************************************************************)
\* The request has run to its end: nothing of it is pending any more.
Ended(r) == pc[r] \in {"rejected", "answered", "streamed", "failed"}

\* The URLs of the model by inspection: missing ones, one that does not
\* parse, and one whose host is vimeo.co (its path holds "youtu.be"); the
\* hosts of U_short and U_long match the pattern.
MissingUrls == {Absent, U_empty}
UnparseableUrls == {U_noscheme}
ForeignHostUrls == {U_other}

\* The request must be refused: a bad url, or a bad mode for /download.
Invalid(r) ==
  \/ query[r].url \in MissingUrls \cup UnparseableUrls \cup ForeignHostUrls
  \/ route[r] = "download" /\ query[r].mode # S_video /\ query[r].mode # S_audio

NoneSpawned(r) == spawned[r] = [info |-> 0, download |-> 0, trim |-> 0]

\* A trim boundary was supplied with a value.
Supplied(v) == v # Absent /\ Len(v) > 0

(***************************************************************************)
(* C1: when a /download request has ended, on whatever path, none of the   *)
(* temp files its processes wrote is left in the temp directory.           *)
(***************************************************************************)
C1_NoTempFileLeft ==
  \A r \in Req : route[r] = "download" /\ Ended(r) => made[r] \cap files = {}

(***************************************************************************)
(* C2: a request with a missing, unparseable or foreign-host url, and a    *)
(* /download with a mode other than video and audio, is answered 400 and   *)
(* never spawns a process.                                                 *)
(***************************************************************************)
C2_InvalidRefused ==
  \A r \in Req :
    route[r] # "none" /\ Invalid(r) =>
      /\ pc[r] = "rejected"
      /\ res[r].status = 400
      /\ res[r].count = 1
      /\ NoneSpawned(r)

C2_Witness ==
  /\ route[1] = "download"
  /\ query[1].url = U_other
  /\ pc[1] = "rejected"

(***************************************************************************)
(* C3: a /download whose fetched duration exceeds 3600 seconds spawns no   *)
(* download and no trim, creates no temp file and ends with a 500.         *)
(***************************************************************************)
C3_TooLongRefused ==
  \A r \in Req :
    /\ route[r] = "download"
    /\ exit[r].info = "ok"
    /\ info[r].duration # <<>>
    /\ info[r].duration[1] > 3600
    => /\ pc[r] = "failed"
       /\ res[r].status = 500
       /\ spawned[r].download = 0
       /\ spawned[r].trim = 0
       /\ tempFile[r] = NoPath
       /\ made[r] = {}

C3_Witness ==
  /\ route[1] = "download"
  /\ info[1] = [parses |-> TRUE, duration |-> <<3601>>, title |-> Absent]
  /\ pc[1] = "failed"

(***************************************************************************)
(* C4: a failed /download has sent the 500 error response exactly when no  *)
(* header had left before the failure; after the stream has sent the       *)
(* headers a failure sends nothing more; no request gets two responses.    *)
(***************************************************************************)
C4_OneResponse ==
  \A r \in Req :
    /\ res[r].count <= 1
    /\ route[r] = "download" /\ pc[r] = "failed" =>
         /\ res[r].status = 500 <=> ~res[r].streamed
         /\ res[r].streamed => res[r].status = 200
         /\ res[r].count = 1

C4_Witness ==
  /\ route[1] = "download"
  /\ pc[1] = "failed"
  /\ exit[1].stream = "error"
  /\ res[1].streamed

(***************************************************************************)
(* C5: once the read stream has ended or failed, the final temp file is    *)
(* gone; after a successful retrieval nothing the request wrote is left.   *)
(***************************************************************************)
C5_FinalFileDeleted ==
  \A r \in Req :
    /\ exit[r].stream \in {"end", "error"} => finalFile[r] \notin files
    /\ pc[r] = "streamed" => made[r] \cap files = {}

C5_Witness ==
  /\ pc[1] = "streamed"
  /\ exit[1].trim = "ok"
  /\ Cardinality(made[1]) = 2

(***************************************************************************)
(* C6: the trim is spawned exactly when start or end was supplied and the  *)
(* download succeeded; after it the downloaded file is gone before the     *)
(* streaming, the trimmed file is the one streamed and the filename has    *)
(* "_trimmed"; without start and end the downloaded file is streamed.      *)
(***************************************************************************)
C6_Trim ==
  \A r \in Req :
    LET asked == Supplied(query[r].start) \/ Supplied(query[r].end)
        streams == pc[r] \in {"streaming", "streamed"}
    IN route[r] = "download" =>
         /\ spawned[r].trim = 1 <=> asked /\ exit[r].download = "ok"
         /\ spawned[r].trim = 0 <=> ~(asked /\ exit[r].download = "ok")
         /\ streams /\ asked =>
              /\ exit[r].trim = "ok"
              /\ tempFile[r] \notin files
              /\ finalFile[r].prefix = "ytdl_trim"
              /\ finalFile[r] # tempFile[r]
              /\ Contains(res[r].disposition, S_trimmed)
         /\ streams /\ ~asked =>
              /\ finalFile[r] = tempFile[r]
              /\ finalFile[r].prefix = "ytdl"

C6_Witness ==
  /\ pc[1] = "streaming"
  /\ query[1].start = Absent
  /\ query[1].end = S_time
  /\ spawned[1].trim = 1
  /\ finalFile[1] \in files

(***************************************************************************)
(* C7: no two requests in flight hold the same download path or the same   *)
(* trim path.                                                              *)
(***************************************************************************)
C7_NoSharedPath ==
  \A r1, r2 \in Req :
    r1 # r2 /\ ~Ended(r1) /\ ~Ended(r2) =>
      /\ tempFile[r1] # NoPath => tempFile[r1] # tempFile[r2]
      /\ finalFile[r1] # NoPath => finalFile[r1] # finalFile[r2]

(***************************************************************************)
(* C8: the metadata fetch succeeds only on exit code 0 with output that    *)
(* parses; a non-zero exit, a spawn error or unparseable output ends /info *)
(* and /download with a 500, and /download spawns no download.             *)
(***************************************************************************)
C8_FetchFailure ==
  \A r \in Req :
    /\ info[r].parses => exit[r].info = "ok"
    /\ exit[r].info = "ok" => info[r].parses
    /\ exit[r].info \in {"fail", "error", "garbage"} =>
         /\ pc[r] = "failed"
         /\ res[r].status = 500
         /\ res[r].count = 1
         /\ spawned[r].download = 0

C8_Witness ==
  /\ route[1] = "download"
  /\ exit[1].info = "fail"
  /\ pc[1] = "failed"

(***************************************************************************)
(* C9: every request that passes validation has spawned its own info       *)
(* process exactly once, whatever the other requests fetched, and no       *)
(* request spawns any tool twice.                                          *)
(***************************************************************************)
C9_SingleAttempt ==
  \A r \in Req :
    /\ spawned[r].info <= 1 /\ spawned[r].download <= 1 /\ spawned[r].trim <= 1
    /\ route[r] # "none" /\ ~Invalid(r) => spawned[r].info = 1
    /\ route[r] = "none" \/ Invalid(r) => spawned[r].info = 0

C9_Witness ==
  /\ info[1].parses /\ info[2].parses
  /\ query[1].url = query[2].url
  /\ spawned[1].info = 1 /\ spawned[2].info = 1
  /\ pc[1] = "failed" /\ exit[1].download = "fail"

(***************************************************************************)
(* C10: a streamed response has Content-Type audio/mpeg exactly for mode   *)
(* audio with container mp3, and otherwise video/<ext> with ext webm in    *)
(* audio mode and the container in video mode.                             *)
(***************************************************************************)
C10_ContentType ==
  \A r \in Req :
    pc[r] \in {"streaming", "streamed"} =>
      LET m == query[r].mode
          c == query[r].container
      IN /\ res[r].ctype = S_audio_mpeg <=> m = S_audio /\ c = S_mp3
         /\ ~(m = S_audio /\ c = S_mp3) =>
              res[r].ctype = S_video_slash \o (IF m = S_audio THEN S_webm ELSE c)

C10_Witness ==
  /\ pc[1] = "streaming"
  /\ query[1].mode = S_audio
  /\ query[1].container = S_mp4
  /\ res[1].ctype = S_video_slash \o S_webm

(***************************************************************************)
(* C11: a /download request moves only forward through validating ("idle"),*)
(* fetching metadata, downloading, trimming (when asked), streaming and    *)
(* cleaned, or leaves to a failure; the download is spawned only after the *)
(* metadata fetch succeeded, the trim only after the download succeeded,   *)
(* and headers and streaming begin only after the last process succeeded.  *)
(***************************************************************************)
\* The moves of pc that the order allows, for a request that asked for a
\* trim or did not.
C11_Moves(asked) ==
  {<<"idle", "rejected">>, <<"idle", "info">>,
   <<"info", "download">>, <<"info", "failed">>,
   <<"download", "failed">>,
   <<"trim", "streaming">>, <<"trim", "failed">>,
   <<"streaming", "streamed">>, <<"streaming", "failed">>}
  \cup (IF asked THEN {<<"download", "trim">>} ELSE {<<"download", "streaming">>})

C11_Order ==
  [][\A r \in Req :
       route'[r] = "download" =>
         /\ pc'[r] # pc[r] =>
              <<pc[r], pc'[r]>> \in
                C11_Moves(Supplied(query'[r].start) \/ Supplied(query'[r].end))
         /\ spawned'[r].download = 1 => exit'[r].info = "ok"
         /\ spawned'[r].trim = 1 => exit'[r].download = "ok"
         /\ pc'[r] \in {"streaming", "streamed"} \/ res'[r].streamed
              \/ res'[r].ctype # <<>> =>
              /\ exit'[r].download = "ok"
              /\ spawned'[r].trim = 1 => exit'[r].trim = "ok"]_vars

C11_Witness ==
  /\ route[1] = "download"
  /\ pc[1] = "streamed"
  /\ spawned[1] = [info |-> 1, download |-> 1, trim |-> 1]
  /\ res[1].status = 200

(***************************************************************************)
(* C12: the download and the trim count as complete only on exit code 0    *)
(* with the output file present; on exit code 0 with the file missing the  *)
(* step fails, and the request ends with a 500 and streams nothing.        *)
(***************************************************************************)
C12_FileRequired ==
  \A r \in Req :
    /\ pc[r] \in {"trim", "streaming", "streamed"} \/ spawned[r].trim = 1 =>
         exit[r].download = "ok"
    /\ pc[r] \in {"streaming", "streamed"} /\ spawned[r].trim = 1 =>
         exit[r].trim = "ok"
    /\ exit[r].download = "nofile" \/ exit[r].trim = "nofile" =>
         /\ pc[r] = "failed"
         /\ res[r].status = 500
         /\ res[r].count = 1
         /\ ~res[r].streamed
         /\ res[r].ctype = <<>>
         /\ exit[r].stream = "none"
    /\ exit[r].download = "nofile" => spawned[r].trim = 0

C12_Witness ==
  /\ exit[1].download = "ok"
  /\ exit[1].trim = "nofile"
  /\ pc[1] = "failed"
  /\ res[1].status = 500

(***************************************************************************)
(* C13: when every child process closes or errors and the read stream ends *)
(* or errors, a /download request leaves the intermediate states for good: *)
(* it ends with an error response, or with the file streamed and the final *)
(* file unlinked.                                                          *)
(***************************************************************************)
\* The request has ended with an error response.
C13_ErrorSent(r) == Ended(r) /\ res[r].status \in {400, 500} /\ res[r].count = 1

\* As claimed: an error response, or the file streamed to its end and the
\* final file unlinked.
C13_Terminates ==
  \A r \in {1} :
    route[r] = "download" ~>
      \/ C13_ErrorSent(r)
      \/ pc[r] = "streamed" /\ exit[r].stream = "end" /\ finalFile[r] \notin files

\* Amended: the third ending is the stream that failed after the headers
\* had left, which sends no error response and unlinks the final file.
C13_TerminatesOrTruncated ==
  \A r \in {1} :
    route[r] = "download" ~>
      \/ C13_ErrorSent(r)
      \/ pc[r] = "streamed" /\ exit[r].stream = "end" /\ finalFile[r] \notin files
      \/ /\ pc[r] = "failed" /\ exit[r].stream = "error" /\ res[r].streamed
         /\ res[r].status = 200 /\ finalFile[r] \notin files

C13_Witness ==
  /\ route[1] = "download"
  /\ pc[1] = "failed"
  /\ exit[1].stream = "error"
  /\ res[1].status = 200
  /\ finalFile[1] \notin files

(***************************************************************************)
(* C14: while the requests in flight hold distinct temp-file names, a step *)
(* of one request removes only files that request wrote, leaves the temp   *)
(* files of every other request in place and leaves the state and the      *)
(* response of every other request as they were.                           *)
(***************************************************************************)
\* The temp-file names request r holds.
C14_Names(r) == {tempFile[r], finalFile[r]} \ {NoPath}

\* No name is held by two requests.
C14_DistinctNames ==
  \A r1, r2 \in Req : r1 # r2 => C14_Names(r1) \cap C14_Names(r2) = {}

\* The step is one of request r.
C14_Acts(r) == pc'[r] # pc[r] \/ res'[r] # res[r] \/ exit'[r] # exit[r]

C14_OwnFilesOnly ==
  [][C14_DistinctNames =>
       \A r \in Req :
         C14_Acts(r) =>
           /\ files \ files' \subseteq made[r] \cap C14_Names(r)
           /\ \A o \in Req \ {r} :
                /\ C14_Names(o) \cap files \subseteq files'
                /\ res'[o] = res[o]
                /\ pc'[o] = pc[o]
                /\ exit'[o] = exit[o]]_vars

C14_Witness ==
  /\ C14_DistinctNames
  /\ pc[1] = "failed" /\ exit[1].stream = "error"
  /\ finalFile[1] \in made[1] /\ finalFile[1] \notin files
  /\ pc[2] = "streaming" /\ finalFile[2] \in files
  /\ res[2].status = 200

(***************************************************************************)
(* C15: the duration check is strict and a missing duration counts as 0.   *)
(* A /download whose metadata fetch succeeded with a duration of exactly   *)
(* 3600 seconds, of 0, or with none has passed the check: the temp file is *)
(* named and the download process spawned.  The download is spawned        *)
(* exactly when the fetched duration is not strictly greater than 3600.    *)
(***************************************************************************)
C15_Passes(r) ==
  /\ tempFile[r] # NoPath
  /\ spawned[r].download = 1
  /\ exit[r].info = "ok"

C15_StrictLimit ==
  \A r \in Req :
    route[r] = "download" /\ exit[r].info = "ok" =>
      /\ info[r].duration \in {<<>>, <<0>>, <<MAX_DURATION>>} => C15_Passes(r)
      /\ spawned[r].download = 1 <=>
           ~(info[r].duration # <<>> /\ info[r].duration[1] > MAX_DURATION)

C15_Witness ==
  /\ route[1] = "download"
  /\ info[1] = [parses |-> TRUE, duration |-> <<MAX_DURATION>>, title |-> Absent]
  /\ pc[1] = "download"
  /\ spawned[1].download = 1
  /\ tempFile[1] # NoPath

====
